---- MODULE Spec2Model ----
(***************************************************************************)
(* Model of the custom Express/Next.js server of the ButterCMS blog        *)
(* (server.js, pages/index.js, pages/category.js and the other page        *)
(* components).  A request is dispatched by the Express route table (first *)
(* registered match wins), a page route hands a context query to the       *)
(* page's getInitialProps, which awaits exactly one ButterCMS call, and    *)
(* the page's render() turns the returned props into links.  The feed      *)
(* routes proxy butter.feed.retrieve and the webhook route re-runs         *)
(* app.prepare().                                                          *)
(***************************************************************************)
EXTENDS Integers, Sequences, FiniteSets

VARIABLES routes, alive, pc, input, handler, ctx, calls, settled, props,
          responses

vars == <<routes, alive, pc, input, handler, ctx, calls, settled, props,
          responses>>

\* Number of requests the server receives in one behaviour.
MaxReq == 2

ReqIds == 1..MaxReq

----------------------------------------------------------------------------
\* JavaScript values, as far as the handlers and pages inspect them.

Undefined == [t |-> "undefined"]

Null == [t |-> "null"]

Str(s) == [t |-> "string", s |-> s]

Num(n) == [t |-> "number", n |-> n]

\* ToBoolean: undefined, null, "" and 0 are falsy.
Truthy(v) ==
  CASE v.t = "undefined" -> FALSE
    [] v.t = "null"      -> FALSE
    [] v.t = "string"    -> v.s # ""
    [] v.t = "number"    -> v.n # 0
    [] OTHER             -> TRUE

\* a || b
JSOr(a, b) == IF Truthy(a) THEN a ELSE b

Digits == <<"1", "2", "3", "4", "5", "6", "7", "8", "9">>

\* `${v}` inside a template literal.
TemplateString(v) ==
  CASE v.t = "undefined" -> "undefined"
    [] v.t = "null"      -> "null"
    [] v.t = "string"    -> v.s
    [] v.t = "number"    -> IF v.n = 0 THEN "0" ELSE Digits[v.n]

\* A parsed query object; a key that is not in the URL reads as undefined.
NoQuery == [page |-> Undefined, slug |-> Undefined]

QueryKeys == {"page", "slug"}

----------------------------------------------------------------------------
\* The Express route table.  A path is its sequence of segments.

Route(m, pat, h) == [method |-> m, pattern |-> pat, handler |-> h]

\* server.js as first listed: /posts, /posts/:slug, then the catch-all.
BaseRoutes ==
  << Route("GET", <<"posts">>, "posts"),
     Route("GET", <<"posts", ":slug">>, "post") >>

\* The two category routes, given as a fragment between "//..." marks.
CategoryRoutes ==
  << Route("GET", <<"posts", "categories">>, "categories"),
     Route("GET", <<"posts", "category", ":slug">>, "category") >>

ProductRoute == << Route("GET", <<"products", ":slug">>, "product") >>

WebhookRoute == << Route("POST", <<"webhook-receiver">>, "webhook") >>

FeedRoutes ==
  << Route("GET", <<"sitemap">>, "sitemap"),
     Route("GET", <<"atom">>, "atom"),
     Route("GET", <<"rss">>, "rss") >>

CatchAll == << Route("GET", <<"*">>, "default") >>

\* The fragments in the order the source introduces them, ahead of the
\* catch-all.
RoutesInSourceOrder ==
  BaseRoutes \o CategoryRoutes \o ProductRoute \o WebhookRoute \o FeedRoutes
    \o CatchAll

\* The same table with the category fragment placed ahead of /posts/:slug.
RoutesCategoriesFirst ==
  SubSeq(BaseRoutes, 1, 1) \o CategoryRoutes \o SubSeq(BaseRoutes, 2, 2)
    \o ProductRoute \o WebhookRoute \o FeedRoutes \o CatchAll

\* The fragments appended, in the order the source introduces them, after
\* the routes of the first listing, that is after the catch-all.
RoutesAppended ==
  BaseRoutes \o CatchAll \o CategoryRoutes \o ProductRoute \o WebhookRoute
    \o FeedRoutes

\* The source does not fix where the "//..." fragments go in server.js.
RouteTables == {RoutesInSourceOrder, RoutesCategoriesFirst, RoutesAppended}

\* path-to-regexp: '*' matches anything, ':slug' matches one segment.
MatchPattern(pat, path) ==
  \/ pat = <<"*">>
  \/ /\ Len(pat) = Len(path)
     /\ \A i \in 1..Len(pat) : pat[i] = ":slug" \/ pat[i] = path[i]

Matches(rt, m, path) ==
  {i \in 1..Len(rt) : rt[i].method = m /\ MatchPattern(rt[i].pattern, path)}

\* Express runs the first registered route that matches; "none" when no
\* route does (Express's own 404).
FirstMatch(rt, m, path) ==
  IF Matches(rt, m, path) = {} THEN Route(m, <<>>, "none")
  ELSE rt[CHOOSE i \in Matches(rt, m, path) :
            \A j \in Matches(rt, m, path) : i <= j]

\* req.params.slug
ParamSlug(pat, path) ==
  IF \E i \in 1..Len(pat) : pat[i] = ":slug"
  THEN Str(path[CHOOSE i \in 1..Len(pat) : pat[i] = ":slug"])
  ELSE Undefined

PageFiles == {"index", "post", "categories", "category", "product", "products"}

\* Next's default handler: one page file per top-level name, "/" is index.
DefaultPage(path) ==
  IF path = <<>> THEN "index"
  ELSE IF Len(path) = 1 /\ path[1] \in PageFiles THEN path[1]
  ELSE "notfound"

FeedHandlers == {"sitemap", "atom", "rss"}

\* The page a route handler names in app.render, "notfound" if it renders none.
PageOf(h, path) ==
  CASE h = "posts"      -> "index"
    [] h = "post"       -> "post"
    [] h = "categories" -> "categories"
    [] h = "category"   -> "category"
    [] h = "product"    -> "product"
    [] h = "default"    -> DefaultPage(path)
    [] OTHER            -> "notfound"

\* The query the page's getInitialProps receives: the fourth argument of
\* app.render when the handler passes one, {} when it passes none, and the
\* parsed query of the URL on the default handler.
ContextQuery(rte, req) ==
  CASE rte.handler \in {"posts", "post", "category", "product"} ->
         [page |-> Undefined, slug |-> ParamSlug(rte.pattern, req.path)]
    [] rte.handler = "categories" -> NoQuery
    [] OTHER -> req.query

----------------------------------------------------------------------------
\* The ButterCMS client and the page components.

PageSize == 10

FirstPage == 1

Obj(o) == [t |-> "object", o |-> o]

Call(api, args) == [api |-> api, args |-> args]

\* The one ButterCMS call of each page's getInitialProps({ query }).
ResolverCall(page, query) ==
  CASE page = "index" ->
         Call("post.list",
              << Obj([page |-> JSOr(query.page, Num(FirstPage)),
                      page_size |-> Num(PageSize)]) >>)
    [] page = "post" -> Call("post.retrieve", << query.slug >>)
    [] page = "categories" -> Call("category.list", << >>)
    [] page = "category" ->
         Call("category.retrieve",
              << query.slug, Obj([include |-> Str("recent_posts")]) >>)
    [] page = "product" ->
         Call("page.retrieve", << Str("product"), query.slug >>)
    [] page = "products" -> Call("page.list", << Str("product") >>)

\* butter.feed.retrieve(kind) of the three feed routes.
FeedCallSwapped(h) ==
  CASE h = "sitemap" -> Call("feed.retrieve", << Str("sitemap") >>)
    [] h = "atom"    -> Call("feed.retrieve", << Str("rss") >>)
    [] h = "rss"     -> Call("feed.retrieve", << Str("atom") >>)

FeedCall(h) ==
  CASE h = "sitemap" -> Call("feed.retrieve", << Str("sitemap") >>)
    [] h = "atom"    -> Call("feed.retrieve", << Str("atom") >>)
    [] h = "rss"     -> Call("feed.retrieve", << Str("rss") >>)

\* A handler issues a call: it is appended to the calls of that request,
\* whatever the other requests have in flight.
IssueCallCoalesced(cs, r, c) ==
  IF \E q \in DOMAIN cs : q # r /\ cs[q] = << c >>
  THEN cs
  ELSE [cs EXCEPT ![r] = Append(@, c)]

IssueCall(cs, r, c) == [cs EXCEPT ![r] = Append(@, c)]

Post(slug, title) == [slug |-> Str(slug), title |-> title]

Category(slug, name) == [slug |-> Str(slug), name |-> name]

Product(slug, title) == [slug |-> Str(slug), fields |-> [title |-> title]]

Posts == << Post("a", "Post A"), Post("b", "Post B") >>

Categories == << Category("a", "Category A"), Category("b", "Category B") >>

Products == << Product("a", "Product A"), Product("b", "Product B") >>

\* meta of a list response: an indicator is a page number, null or missing.
Meta(prev, next) == [previous_page |-> prev, next_page |-> next]

ListMetas ==
  { Meta(Null, Num(2)), Meta(Num(1), Null), Meta(Num(1), Num(3)),
    Meta(Undefined, Undefined), Meta(Num(0), Null) }

FeedPayloads == {"<xml>one</xml>", "<xml>two</xml>"}

UpstreamErrors == {"network", "not-found"}

Resolved(v) == [state |-> "resolved", value |-> v]

Rejected(e) == [state |-> "rejected", error |-> e]

Pending == [state |-> "pending"]

\* What the content API may answer to a call: resp, with resp.data the body.
Upstream(c) ==
  CASE c.api = "post.list" ->
         { [data |-> [data |-> Posts, meta |-> m]] : m \in ListMetas }
    [] c.api = "post.retrieve" ->
         { [data |-> [data |-> Post(TemplateString(c.args[1]), "Post")]] }
    [] c.api = "category.list" -> { [data |-> [data |-> Categories]] }
    [] c.api = "category.retrieve" ->
         { [data |-> [data |-> [slug |-> c.args[1], name |-> "Category",
                                recent_posts |-> Posts]]] }
    [] c.api = "page.retrieve" ->
         { [data |-> [data |-> Product(TemplateString(c.args[2]), "Product")]] }
    [] c.api = "page.list" -> { [data |-> [data |-> Products]] }
    [] c.api = "feed.retrieve" ->
         { [data |-> [data |-> f]] : f \in FeedPayloads }

\* getInitialProps: `const resp = await butter...; return resp.data`.  A
\* rejected await rejects the async function with the same error.
GetInitialPropsRethrow(s) ==
  IF s.state = "resolved" THEN Resolved(s.value.data)
  ELSE Rejected("failed to load")

GetInitialProps(s) ==
  IF s.state = "resolved" THEN Resolved(s.value.data) ELSE s

Link(text, path, query) == [text |-> text, path |-> path, query |-> query]

\* {v && <Link href={`/?page=${v}`}><a>text</a></Link>}
PageLink(text, v) ==
  IF Truthy(v)
  THEN << Link(text, << >>, [page |-> Str(TemplateString(v)), slug |-> Undefined]) >>
  ELSE << >>

\* <a href={`/post/${post.slug}`}>{post.title}</a> of pages/index.js
IndexPostLinks(es) ==
  [i \in 1..Len(es) |->
     Link(es[i].title, << "post", TemplateString(es[i].slug) >>, NoQuery)]

\* <a href={`/posts/category/${category.slug}`}>{category.name}</a>
CategoriesRender(p) ==
  [i \in 1..Len(p.data) |->
     Link(p.data[i].name,
          << "posts", "category", TemplateString(p.data[i].slug) >>, NoQuery)]

\* <a href={`/posts/${post.slug}`}>{post.title}</a> of pages/category.js
CategoryRender(p) ==
  [i \in 1..Len(p.data.recent_posts) |->
     Link(p.data.recent_posts[i].title,
          << "posts", TemplateString(p.data.recent_posts[i].slug) >>, NoQuery)]

\* <a href={`/product/${product.slug}`}>{product.fields.title}</a>
ProductsRender(p) ==
  [i \in 1..Len(p.data) |->
     Link(p.data[i].fields.title,
          << "product", TemplateString(p.data[i].slug) >>, NoQuery)]

\* render() of pages/index.js
IndexRenderSwapped(p) ==
  IndexPostLinks(p.data)
    \o PageLink("Prev", p.meta.next_page) \o PageLink("Next", p.meta.previous_page)

IndexRender(p) ==
  IndexPostLinks(p.data)
    \o PageLink("Prev", p.meta.previous_page) \o PageLink("Next", p.meta.next_page)

\* render() of each page: the links of the rendered document.
Render(page, p) ==
  CASE page = "index"      -> IndexRender(p)
    [] page = "categories" -> CategoriesRender(p)
    [] page = "category"   -> CategoryRender(p)
    [] page = "products"   -> ProductsRender(p)
    [] OTHER               -> << >>

Response(status, body) == [status |-> status, body |-> body]

Empty == [kind |-> "empty"]

Html(page, links) == [kind |-> "html", page |-> page, links |-> links]

Text(t) == [kind |-> "text", text |-> t]

\* res.send(s.data.data) in .then, and no .catch: a rejected feed call
\* leaves the response untouched.
FeedSettleCaught(resps, s) ==
  IF s.state = "resolved"
  THEN Append(resps, Response(200, Text(s.value.data.data)))
  ELSE Append(resps, Response(500, Empty))

FeedSettle(resps, s) ==
  IF s.state = "resolved"
  THEN Append(resps, Response(200, Text(s.value.data.data)))
  ELSE resps

\* app.prepare().then(() => res.end()).catch((e) => res.status(500).end())
WebhookSettleUncaught(resps, s) ==
  IF s.state = "resolved"
  THEN Append(resps, Response(200, Empty))
  ELSE resps

WebhookSettle(resps, s) ==
  IF s.state = "resolved"
  THEN Append(resps, Response(200, Empty))
  ELSE Append(resps, Response(500, Empty))

----------------------------------------------------------------------------
\* Requests.

Req(m, path, query) == [method |-> m, path |-> path, query |-> query]

QPage(s) == [page |-> Str(s), slug |-> Undefined]

Requests ==
  { Req("GET", << >>, NoQuery),
    Req("GET", << >>, QPage("2")),
    Req("GET", << >>, QPage("")),
    Req("GET", << "posts" >>, NoQuery),
    Req("GET", << "posts" >>, QPage("2")),
    Req("GET", << "posts", "a" >>, NoQuery),
    Req("GET", << "posts", "categories" >>, NoQuery),
    Req("GET", << "posts", "category", "a" >>, NoQuery),
    Req("GET", << "posts", "category", "b" >>, NoQuery),
    Req("GET", << "products" >>, NoQuery),
    Req("GET", << "products", "a" >>, NoQuery),
    Req("GET", << "product", "a" >>, NoQuery),
    Req("GET", << "post", "a" >>, NoQuery),
    Req("GET", << "sitemap" >>, NoQuery),
    Req("GET", << "atom" >>, NoQuery),
    Req("GET", << "rss" >>, NoQuery),
    Req("GET", << "does-not-exist" >>, NoQuery),
    Req("POST", << "webhook-receiver" >>, NoQuery),
    Req("POST", << "posts" >>, NoQuery) }

NoRequest == Req("", << >>, NoQuery)

NoContext == [page |-> "notfound", query |-> NoQuery]

Init ==
  /\ routes \in RouteTables
  /\ alive = TRUE
  /\ pc = [r \in ReqIds |-> "idle"]
  /\ input = [r \in ReqIds |-> NoRequest]
  /\ handler = [r \in ReqIds |-> "unset"]
  /\ ctx = [r \in ReqIds |-> NoContext]
  /\ calls = [r \in ReqIds |-> << >>]
  /\ settled = [r \in ReqIds |-> Pending]
  /\ props = [r \in ReqIds |-> Pending]
  /\ responses = [r \in ReqIds |-> << >>]

\* Requests arrive one after the other, as long as the process runs;
\* request r is the r-th to arrive.
Arrives(r) ==
  /\ alive
  /\ pc[r] = "idle"
  /\ IF r = 1 THEN TRUE ELSE pc[r - 1] # "idle"

\* A GET that reaches a page: the route handler (or Next's default handler)
\* calls app.render, which starts the page's getInitialProps.
PageRequest(r) ==
  /\ Arrives(r)
  /\ \E req \in Requests :
       LET rte  == FirstMatch(routes, req.method, req.path)
           page == PageOf(rte.handler, req.path)
           q    == ContextQuery(rte, req)
       IN /\ page # "notfound"
          /\ input' = [input EXCEPT ![r] = req]
          /\ handler' = [handler EXCEPT ![r] = rte.handler]
          /\ ctx' = [ctx EXCEPT ![r] = [page |-> page, query |-> q]]
          /\ calls' = IssueCall(calls, r, ResolverCall(page, q))
  /\ pc' = [pc EXCEPT ![r] = "awaiting"]
  /\ UNCHANGED <<routes, alive, settled, props, responses>>

\* A request no route serves, or one the default handler finds no page for.
NotFoundRequest(r) ==
  /\ Arrives(r)
  /\ \E req \in Requests :
       LET rte == FirstMatch(routes, req.method, req.path)
       IN /\ rte.handler \in {"none", "default"}
          /\ PageOf(rte.handler, req.path) = "notfound"
          /\ input' = [input EXCEPT ![r] = req]
          /\ handler' = [handler EXCEPT ![r] = rte.handler]
  /\ responses' = [responses EXCEPT ![r] = Append(@, Response(404, Html("_error", << >>)))]
  /\ pc' = [pc EXCEPT ![r] = "done"]
  /\ UNCHANGED <<routes, alive, ctx, calls, settled, props>>

\* GET /sitemap, /atom, /rss
FeedRequest(r) ==
  /\ Arrives(r)
  /\ \E req \in Requests :
       LET rte == FirstMatch(routes, req.method, req.path)
       IN /\ rte.handler \in FeedHandlers
          /\ input' = [input EXCEPT ![r] = req]
          /\ handler' = [handler EXCEPT ![r] = rte.handler]
          /\ calls' = IssueCall(calls, r, FeedCall(rte.handler))
  /\ pc' = [pc EXCEPT ![r] = "awaiting"]
  /\ UNCHANGED <<routes, alive, ctx, settled, props, responses>>

\* POST /webhook-receiver
WebhookRequest(r) ==
  /\ Arrives(r)
  /\ \E req \in Requests :
       LET rte == FirstMatch(routes, req.method, req.path)
       IN /\ rte.handler = "webhook"
          /\ input' = [input EXCEPT ![r] = req]
          /\ handler' = [handler EXCEPT ![r] = rte.handler]
  /\ calls' = IssueCall(calls, r, Call("app.prepare", << >>))
  /\ pc' = [pc EXCEPT ![r] = "preparing"]
  /\ UNCHANGED <<routes, alive, ctx, settled, props, responses>>

IsPage(r) == ctx[r].page # "notfound"

IsFeed(r) == handler[r] \in FeedHandlers

\* The ButterCMS call of a page resolves: getInitialProps returns resp.data
\* and the page is rendered with it.
ResolverResolve(r) ==
  /\ alive
  /\ pc[r] = "awaiting" /\ IsPage(r)
  /\ \E v \in Upstream(ResolverCall(ctx[r].page, ctx[r].query)) :
       /\ settled' = [settled EXCEPT ![r] = Resolved(v)]
       /\ props' = [props EXCEPT ![r] = GetInitialProps(Resolved(v))]
  /\ props'[r].state = "resolved"
  /\ responses' = [responses EXCEPT ![r] =
        Append(@, Response(200, Html(ctx[r].page, Render(ctx[r].page, props'[r].value))))]
  /\ pc' = [pc EXCEPT ![r] = "done"]
  /\ UNCHANGED <<routes, alive, input, handler, ctx, calls>>

\* The ButterCMS call of a page rejects: whatever getInitialProps settles
\* to goes to the framework, whose error path answers for a rejection.
ResolverReject(r) ==
  /\ alive
  /\ pc[r] = "awaiting" /\ IsPage(r)
  /\ \E e \in UpstreamErrors :
       /\ settled' = [settled EXCEPT ![r] = Rejected(e)]
       /\ props' = [props EXCEPT ![r] = GetInitialProps(Rejected(e))]
  /\ props'[r].state = "rejected"
  /\ responses' = [responses EXCEPT ![r] = Append(@, Response(500, Html("_error", << >>)))]
  /\ pc' = [pc EXCEPT ![r] = "failed"]
  /\ UNCHANGED <<routes, alive, input, handler, ctx, calls>>

FeedResolve(r) ==
  /\ alive
  /\ pc[r] = "awaiting" /\ IsFeed(r)
  /\ \E v \in Upstream(FeedCall(handler[r])) :
       /\ settled' = [settled EXCEPT ![r] = Resolved(v)]
       /\ responses' = [responses EXCEPT ![r] = FeedSettle(@, Resolved(v))]
  /\ pc' = [pc EXCEPT ![r] = "done"]
  /\ UNCHANGED <<routes, alive, input, handler, ctx, calls, props>>

\* No handler is attached for the rejection: nothing writes to res and the
\* request is left open.  Here the runtime only reports the unhandled
\* rejection and the server keeps serving (node before 15).
FeedReject(r) ==
  /\ alive
  /\ pc[r] = "awaiting" /\ IsFeed(r)
  /\ \E e \in UpstreamErrors :
       /\ settled' = [settled EXCEPT ![r] = Rejected(e)]
       /\ responses' = [responses EXCEPT ![r] = FeedSettle(@, Rejected(e))]
  /\ pc' = [pc EXCEPT ![r] = "hung"]
  /\ UNCHANGED <<routes, alive, input, handler, ctx, calls, props>>

\* The same rejection on a runtime that ends the process on an unhandled
\* rejection (node 15 and later): no request in flight is answered and
\* none is accepted any more.
FeedRejectExit(r) ==
  /\ alive
  /\ pc[r] = "awaiting" /\ IsFeed(r)
  /\ \E e \in UpstreamErrors :
       /\ settled' = [settled EXCEPT ![r] = Rejected(e)]
       /\ responses' = [responses EXCEPT ![r] = FeedSettle(@, Rejected(e))]
  /\ pc' = [pc EXCEPT ![r] = "hung"]
  /\ alive' = FALSE
  /\ UNCHANGED <<routes, input, handler, ctx, calls, props>>

\* app.prepare() of a webhook resolves.
PrepareResolve(r) ==
  /\ alive
  /\ pc[r] = "preparing"
  /\ settled' = [settled EXCEPT ![r] = Resolved(Undefined)]
  /\ responses' = [responses EXCEPT ![r] = WebhookSettle(@, Resolved(Undefined))]
  /\ pc' = [pc EXCEPT ![r] = "done"]
  /\ UNCHANGED <<routes, alive, input, handler, ctx, calls, props>>

PrepareReject(r) ==
  /\ alive
  /\ pc[r] = "preparing"
  /\ \E e \in UpstreamErrors :
       /\ settled' = [settled EXCEPT ![r] = Rejected(e)]
       /\ responses' = [responses EXCEPT ![r] = WebhookSettle(@, Rejected(e))]
  /\ pc' = [pc EXCEPT ![r] = "done"]
  /\ UNCHANGED <<routes, alive, input, handler, ctx, calls, props>>

Next ==
  \E r \in ReqIds :
    \/ PageRequest(r)
    \/ NotFoundRequest(r)
    \/ FeedRequest(r)
    \/ WebhookRequest(r)
    \/ ResolverResolve(r)
    \/ ResolverReject(r)
    \/ FeedResolve(r)
    \/ FeedReject(r)
    \/ FeedRejectExit(r)
    \/ PrepareResolve(r)
    \/ PrepareReject(r)

Spec == Init /\ [][Next]_vars

----------------------------------------------------------------------------
\* Properties.

Started(r) == pc[r] # "idle"

Feeds == {<< "sitemap" >>, << "atom" >>, << "rss" >>}

IsWebhookPost(r) ==
  input[r].method = "POST" /\ input[r].path = << "webhook-receiver" >>

IsFeedGet(r) == input[r].method = "GET" /\ input[r].path \in Feeds

\* C1: every POST /webhook-receiver starts exactly one app.prepare() and
\* gets exactly one response once it has settled: empty 2xx if it resolved,
\* empty 500 if it rejected; never zero and never two responses.
WebhookAnswersOnce ==
  \A r \in ReqIds :
    IsWebhookPost(r) =>
      /\ calls[r] = << Call("app.prepare", << >>) >>
      /\ Len(responses[r]) <= 1
      /\ settled[r].state = "pending" => responses[r] = << >>
      /\ settled[r].state # "pending" =>
           /\ pc[r] = "done"
           /\ Len(responses[r]) = 1
           /\ responses[r][1].body = Empty
           /\ settled[r].state = "resolved" => responses[r][1].status \in 200..299
           /\ settled[r].state = "rejected" => responses[r][1].status = 500

WebhookBothOutcomes ==
  \E r, q \in ReqIds :
    /\ IsWebhookPost(r) /\ IsWebhookPost(q)
    /\ settled[r].state = "resolved" /\ responses[r] = << Response(200, Empty) >>
    /\ settled[q].state = "rejected" /\ responses[q] = << Response(500, Empty) >>

ResolverApis ==
  {"post.list", "post.retrieve", "category.list", "category.retrieve",
   "page.list", "page.retrieve"}

ResolverCallsIssued ==
  UNION { {<< r, i >> : i \in {j \in DOMAIN calls[r] : calls[r][j].api \in ResolverApis}}
          : r \in ReqIds }

\* C2: the number of ButterCMS calls issued by page resolvers equals the
\* number of page requests that started resolution; each request issues its
\* own single call (category.retrieve(slug, {include: 'recent_posts'}) on
\* the category route) and renders the payload of its own call only.
OneFetchPerRequest ==
  /\ Cardinality(ResolverCallsIssued)
       = Cardinality({r \in ReqIds : Started(r) /\ IsPage(r)})
  /\ \A r \in ReqIds :
       Started(r) /\ IsPage(r) =>
         /\ Len(calls[r]) = 1
         /\ handler[r] = "category" =>
              calls[r][1] = Call("category.retrieve",
                                 << Str(input[r].path[3]),
                                    Obj([include |-> Str("recent_posts")]) >>)
         /\ pc[r] = "done" => props[r] = Resolved(settled[r].value.data)

SameSlugTwoCalls ==
  \E r, q \in ReqIds :
    /\ r # q
    /\ input[r] = Req("GET", << "posts", "category", "a" >>, NoQuery)
    /\ input[q] = input[r]
    /\ pc[r] = "awaiting" /\ pc[q] = "awaiting"
    /\ Len(calls[r]) = 1 /\ calls[q] = calls[r]

\* The pages the route table of the specification lists for a GET path.
ListedDispatch(r) ==
  LET p == input[r].path
  IN /\ p = << "posts" >> => IsPage(r) /\ ctx[r].page = "index"
     /\ p = << "posts", "categories" >> => IsPage(r) /\ ctx[r].page = "categories"
     /\ (Len(p) = 2 /\ p[1] = "posts" /\ p[2] # "categories") =>
          ctx[r] = [page |-> "post", query |-> [page |-> Undefined, slug |-> Str(p[2])]]
     /\ (Len(p) = 3 /\ p[1] = "posts" /\ p[2] = "category") =>
          ctx[r] = [page |-> "category", query |-> [page |-> Undefined, slug |-> Str(p[3])]]
     /\ (Len(p) = 2 /\ p[1] = "products") =>
          ctx[r] = [page |-> "product", query |-> [page |-> Undefined, slug |-> Str(p[2])]]
     /\ p \in {<< "does-not-exist" >>, << "post", "a" >>, << "product", "a" >>} =>
          /\ handler[r] = "default"
          /\ Len(responses[r]) = 1 /\ responses[r][1].status = 404

\* C3: every GET path is dispatched to the page the route table lists for
\* it, with the context slug equal to the path parameter; a path that
\* matches no pattern goes to the default handler and is answered not-found.
RouterFollowsTable ==
  \A r \in ReqIds :
    Started(r) /\ input[r].method = "GET" => ListedDispatch(r)

\* C4: the context query a page resolver receives contains every query
\* parameter of the request with its value.
QueryForwarded ==
  \A r \in ReqIds :
    Started(r) /\ IsPage(r) =>
      \A k \in QueryKeys :
        input[r].query[k] # Undefined => ctx[r].query[k] = input[r].query[k]

\* C5: the handler of a feed route runs for GET requests of its own path
\* only and requests the feed kind of that name exactly once; when that
\* call resolves, the request is answered once with the payload of that
\* call as the body, untransformed.
FeedProxiesUpstream ==
  \A r \in ReqIds :
    /\ IsFeed(r) =>
         /\ IsFeedGet(r)
         /\ calls[r] = << Call("feed.retrieve", << Str(input[r].path[1]) >>) >>
    /\ (IsFeedGet(r) /\ settled[r].state = "resolved") =>
         /\ IsFeed(r)
         /\ Len(responses[r]) = 1
         /\ responses[r][1].body = Text(settled[r].value.data.data)

FeedsFetchedFresh ==
  \E r, q \in ReqIds :
    /\ input[r] = Req("GET", << "rss" >>, NoQuery) /\ input[q] = input[r]
    /\ r < q
    /\ pc[r] = "done" /\ pc[q] = "done"
    /\ responses[r][1].body = Text("<xml>one</xml>")
    /\ responses[q][1].body = Text("<xml>two</xml>")

\* C6: when the ButterCMS call of a page resolver rejects, the resolver
\* rejects with the same error, returns no data, and the call is not
\* issued again for that request.
ResolverRejectionPropagates ==
  \A r \in ReqIds :
    (IsPage(r) /\ settled[r].state = "rejected") =>
      /\ props[r].state = "rejected"
      /\ props[r].error = settled[r].error
      /\ Len(calls[r]) = 1

ResolverRejected ==
  \E r \in ReqIds :
    /\ handler[r] = "category"
    /\ settled[r] = Rejected("not-found")
    /\ pc[r] = "failed"

IndexStarted(r) == Started(r) /\ IsPage(r) /\ ctx[r].page = "index"

IsPageNumber(v) == v.t = "number" /\ v.n # 0

LinksNamed(r, text) ==
  LET ls == responses[r][1].body.links
  IN {i \in 1..Len(ls) : ls[i].text = text}

\* A link named text is rendered exactly when the indicator v is truthy,
\* and it targets /?page=<v>.
LinkExactlyWhen(r, text, v) ==
  LET ls == responses[r][1].body.links
  IN /\ Cardinality(LinksNamed(r, text)) = (IF IsPageNumber(v) THEN 1 ELSE 0)
     /\ \A i \in LinksNamed(r, text) :
          /\ ls[i].path = << >>
          /\ ls[i].query = [page |-> Str(Digits[v.n]), slug |-> Undefined]

PaginationLinksRendered ==
  \A r \in ReqIds :
    (IndexStarted(r) /\ pc[r] = "done") =>
      /\ LinkExactlyWhen(r, "Prev", props[r].value.meta.previous_page)
      /\ LinkExactlyWhen(r, "Next", props[r].value.meta.next_page)

RequestedPage(r) == calls[r][1].args[1].o

\* C7 as stated: Prev/Next are rendered exactly when the indicator is
\* truthy, and the resolver requests page query.page, or page 1 when
\* query.page is absent, with page_size 10.
PaginationAsStated ==
  /\ PaginationLinksRendered
  /\ \A r \in ReqIds :
       IndexStarted(r) =>
         RequestedPage(r) =
           [page |-> IF ctx[r].query.page = Undefined THEN Num(1)
                     ELSE ctx[r].query.page,
            page_size |-> Num(10)]

\* C7 amended: Prev/Next are rendered exactly when the indicator is truthy;
\* the resolver requests page query.page when it is a non-empty value, and
\* page 1 when query.page is absent or the empty string, with page_size 10.
PaginationAmended ==
  /\ PaginationLinksRendered
  /\ \A r \in ReqIds :
       IndexStarted(r) =>
         RequestedPage(r) =
           [page |-> IF ctx[r].query.page \in {Undefined, Str("")} THEN Num(1)
                     ELSE ctx[r].query.page,
            page_size |-> Num(10)]

NextWithoutPrev ==
  \E r \in ReqIds :
    /\ IndexStarted(r) /\ pc[r] = "done"
    /\ input[r].query.page = Str("")
    /\ props[r].value.meta = Meta(Null, Num(2))
    /\ LinksNamed(r, "Prev") = {}
    /\ \E i \in LinksNamed(r, "Next") :
         responses[r][1].body.links[i].query.page = Str("2")

\* C8: a feed request whose upstream call rejected has no response, in the
\* state of the rejection and in every state after it, whether the process
\* goes on or exits on the unhandled rejection; a webhook whose
\* app.prepare() rejected has its 500.
FeedFailureUnanswered ==
  \A r \in ReqIds :
    /\ (IsFeedGet(r) /\ settled[r].state = "rejected") =>
         responses[r] = << >> /\ pc[r] = "hung"
    /\ (IsWebhookPost(r) /\ settled[r].state = "rejected") =>
         Len(responses[r]) = 1 /\ responses[r][1].status = 500

FeedHungWhileOthersServed ==
  \E r, q \in ReqIds :
    /\ r < q
    /\ IsFeedGet(r) /\ settled[r].state = "rejected" /\ responses[r] = << >>
    /\ pc[q] = "done" /\ Len(responses[q]) = 1

\* The detail page a list page's entity links are meant to reach.
DetailOf(page) ==
  CASE page = "index"      -> "post"
    [] page = "category"   -> "post"
    [] page = "categories" -> "category"
    [] page = "products"   -> "product"
    [] OTHER               -> "notfound"

\* The entities a list page was given to render.
LinkedEntities(r) ==
  IF ctx[r].page = "category" THEN props[r].value.data.recent_posts
  ELSE props[r].value.data

\* C10: every entity link a list page renders is routed to the detail page
\* of that entity type with the slug of the entity, never to the default
\* handler.
LinksReachDetail ==
  \A r \in ReqIds :
    (IsPage(r) /\ pc[r] = "done") =>
      LET ls == responses[r][1].body.links
      IN \A i \in 1..Len(ls) :
           ls[i].text \notin {"Prev", "Next"} =>
             LET rte == FirstMatch(routes, "GET", ls[i].path)
             IN /\ rte.handler # "default"
                /\ PageOf(rte.handler, ls[i].path) = DetailOf(ctx[r].page)
                /\ ParamSlug(rte.pattern, ls[i].path) = LinkedEntities(r)[i].slug

====
